---- MODULE Spec2Model ----
(***************************************************************************)
(* sha_file_hashing: SHA-1 digests of files, computed and validated        *)
(* through a path, a path buffer or an open file handle (src/src/lib.rs).  *)
(*                                                                         *)
(* Strings are sequences of ASCII codes, file contents are sequences of    *)
(* bytes.  A caller thread issues one library call at a time; the call's   *)
(* read loop advances one read(2) per step, so calls of different threads  *)
(* interleave at read granularity.  A read cursor is an open file          *)
(* description: File::open creates a new one, File::try_clone (dup) makes  *)
(* a second descriptor on the SAME description, position included.         *)
(***************************************************************************)
EXTENDS Integers, Sequences, FiniteSets

\* ------------------------------------------------------------- bounds ----
\* Longest file content, in bytes.
MaxLen == 3
\* Length of the read buffer (8192 in the program, scaled down).
BufSize == 2

\* ---------------------------------------------------------- constants ----
\* Bytes of a SHA-1 digest.
DigestLen == 20

\* ------------------------------------------------------- the universe ----
Calls == {"c1", "c2"}
Handles == {"h1", "h2"}
\* The thread that opens each File; any thread may call through a reference.
Owner(h) == IF h = "h1" THEN "c1" ELSE "c2"
RegularFiles == {"a", "b"}
\* "missing" does not exist; "locked" exists but cannot be opened for
\* reading; "hidden" exists in a directory that cannot be searched.
Paths == RegularFiles \cup {"missing", "locked", "hidden"}
ReadErrKinds == {"Interrupted", "Other"}
\* The byte values stored in files.
Bytes == {0, 1}

RECURSIVE SeqsUpTo(_, _)
SeqsUpTo(S, n) ==
    IF n = 0 THEN {<< >>}
    ELSE LET shorter == SeqsUpTo(S, n - 1)
         IN  shorter \cup {Append(s, x) : s \in {t \in shorter : Len(t) = n - 1}, x \in S}

Contents == SeqsUpTo(Bytes, MaxLen)
ContentOfB == <<1, 0>>

Min(x, y) == IF x < y THEN x ELSE y

VARIABLES
    threads,   \* the caller threads that exist
    content,   \* content[p]: bytes of regular file p
    held,      \* held[h]: the caller owns the open File h
    ofile,     \* ofile[x]: the file open file description x is on
    pos,       \* pos[x]: read position of open file description x
    got,       \* got[h]: digest the caller holds from file.hash() on h
    call       \* call[c]: the library call thread c is in

vars == <<threads, content, held, ofile, pos, got, call>>

\* ------------------------------------------------ the digest engine ----
\* Sha1 (crate sha1) is a streaming hash: its state is determined by the
\* bytes absorbed so far, in order.  The state is kept as that byte string;
\* the compression function is replaced by a small mixing function of the
\* same shape (a fold over the bytes, then DigestLen output bytes).
Sha1New == << >>

Sha1Update(hasher, data) == hasher \o data

RECURSIVE Absorb(_, _)
Absorb(s, data) ==
    IF data = << >> THEN s
    ELSE Absorb((s * 33 + Head(data) + 1) % 65521, Tail(data))

Sha1Finalize(hasher) ==
    LET s == Absorb(5381, hasher)
    IN  [i \in 1..DigestLen |-> (s * (2 * i + 1) + (s \div 256) * i + i) % 256]

\* A digit of format!("{:02X}", b): 0-9 then A-F.
HexDigitUpper(n) == IF n < 10 THEN 48 + n ELSE 55 + n

\* One hexadecimal digit of format!("{:02x}", b): 0-9 then a-f.
HexDigit(n) == IF n < 10 THEN 48 + n ELSE 87 + n

\* format!("{:02x}", b): two zero-padded lowercase digits, high nibble first.
FormatByte(b) == <<HexDigit(b \div 16), HexDigit(b % 16)>>

\* result.iter().map(|b| format!("{:02x}", b)).collect::<String>()
ToHex(result) ==
    [i \in 1..(2 * Len(result)) |-> FormatByte(result[(i + 1) \div 2])[2 - (i % 2)]]

\* u8::to_ascii_lowercase: A-Z to a-z, every other code unchanged.
ToAsciiLower(ch) == IF ch >= 65 /\ ch <= 90 THEN ch + 32 ELSE ch

\* A comparison that does not ignore the letter case.
EqExact(x, y) == x = y

\* str::eq_ignore_ascii_case: same length and bytewise equal after lowering.
EqIgnoreAsciiCase(x, y) ==
    /\ Len(x) = Len(y)
    /\ \A i \in 1..Len(x) : ToAsciiLower(x[i]) = ToAsciiLower(y[i])

\* An update with the whole buffer, stale bytes included.
FoldWholeBuffer(hasher, buffer, n) == Sha1Update(hasher, buffer)

\* hasher.update(&buffer[..n])
Fold(hasher, buffer, n) == Sha1Update(hasher, SubSeq(buffer, 1, n))

\* hasher.finalize() rendered as the 40-character string.
Computed(hasher) == ToHex(Sha1Finalize(hasher))

\* --------------------------------------------------------- results ----
NoResult == [tag |-> "None", str |-> << >>, b |-> FALSE, kind |-> "-"]
\* Ok(String) of hash
OkString(s) == [tag |-> "OkString", str |-> s, b |-> FALSE, kind |-> "-"]
\* Ok(bool) of validate
OkBool(v) == [tag |-> "OkBool", str |-> << >>, b |-> v, kind |-> "-"]
\* the bare bool of the free function validate_file
Bool(v) == [tag |-> "Bool", str |-> << >>, b |-> v, kind |-> "-"]
\* Err(SHAError::IO(e)) with e.kind() = k
ErrIO(k) == [tag |-> "ErrIO", str |-> << >>, b |-> FALSE, kind |-> k]

\* ------------------------------------------------- the file system ----
\* Path::exists: false when the metadata cannot be read, whatever the reason.
Exists(path) == path \in RegularFiles \cup {"locked"}

\* File::open: "none" on success, else the kind of the error it returns.
OpenError(path) ==
    IF path \in RegularFiles THEN "none"
    ELSE IF path = "missing" THEN "NotFound"
    ELSE "PermissionDenied"

\* Open file descriptions: one per caller-opened File, one per path call.
Cursors == Handles \cup Calls

\* let mut buffer = [0u8; 8192];
ZeroBuffer == [i \in 1..BufSize |-> 0]

\* Bytes a read may return with `rem` bytes left before end of file: 0 only
\* at end of file, otherwise any count up to the buffer length (short reads).
ReadSizes(rem) == IF rem = 0 THEN {0} ELSE 1..Min(BufSize, rem)

\* The buffer after a read stored `data` at its front.
Filled(buffer, data) == data \o SubSeq(buffer, Len(data) + 1, Len(buffer))

\* ---------------------------------------------------------- calls ----
IdleCall ==
    [pc |-> "idle", op |-> "none", src |-> "none", cur |-> "none",
     path |-> "none", expected |-> << >>, hasher |-> Sha1New, buffer |-> ZeroBuffer,
     result |-> NoResult, start |-> 0, nreads |-> 0, readErr |-> "none",
     cloneFailed |-> FALSE, solo |-> TRUE, twoCall |-> FALSE]

Reading(c) == call[c].pc = "reading"

\* Other calls that are reading through open file description x.
Sharing(c, x) == {d \in Calls \ {c} : Reading(d) /\ call[d].cur = x}

\* BufReader::new(file); Sha1::new(); [0u8; 8192]: the state of hash_file
\* or validate_file on entry to the read loop, reading file p through x.
Entered(c, operation, source, x, p, e, two) ==
    [pc |-> "reading", op |-> operation, src |-> source, cur |-> x,
     path |-> p, expected |-> e, hasher |-> Sha1New, buffer |-> ZeroBuffer,
     result |-> NoResult, start |-> IF x \in Handles THEN pos[x] ELSE 0,
     nreads |-> 0, readErr |-> "none", cloneFailed |-> FALSE,
     solo |-> Sharing(c, x) = {}, twoCall |-> two]

\* A call that returned r before reaching the read loop.
Returned(operation, source, x, p, e, r, clone) ==
    [IdleCall EXCEPT !.pc = "done", !.op = operation, !.src = source,
                     !.cur = x, !.path = p, !.expected = e, !.result = r,
                     !.start = IF x \in Handles THEN pos[x] ELSE 0,
                     !.cloneFailed = clone]

\* call' when thread c enters a read loop on x with record r.
WithEntered(c, x, r) ==
    [d \in Calls |->
        IF d = c THEN r
        ELSE IF Reading(d) /\ call[d].cur = x THEN [call[d] EXCEPT !.solo = FALSE]
        ELSE call[d]]

UpperChar(ch) == IF ch >= 97 /\ ch <= 122 THEN ch - 32 ELSE ch
Upper(s) == [i \in 1..Len(s) |-> UpperChar(s[i])]
Mixed(s) == [i \in 1..Len(s) |-> IF i % 2 = 1 THEN UpperChar(s[i]) ELSE s[i]]

\* The expected strings a caller passes to validate for a file of content d:
\* the digest in lower, upper and mixed case, the empty string, a string one
\* character short, one with a non-hex character, and another digest.
ExpectedStrings(d) ==
    LET h == Computed(d)
    IN  {h, Upper(h), Mixed(h), << >>, SubSeq(h, 1, Len(h) - 1),
         <<103>> \o Tail(h), Computed(IF d = << >> THEN <<0>> ELSE << >>)}

ExpectedFor(path) ==
    IF path \in RegularFiles THEN ExpectedStrings(content[path])
    ELSE {Computed(<< >>)}

\* The expected strings a caller passes to File::validate on h: those for
\* the file, and the digest it holds from a preceding file.hash().
ExpectedForHandle(h) ==
    ExpectedFor(ofile[h]) \cup (IF got[h] # << >> THEN {got[h]} ELSE {})

\* ---------------------------------------------------------- Init ----
InitFiles ==
    /\ content \in {f \in [RegularFiles -> Contents] : f["b"] = ContentOfB}
    /\ held = [h \in Handles |-> FALSE]
    /\ ofile = [x \in Cursors |-> "none"]
    /\ pos = [x \in Cursors |-> 0]
    /\ got = [h \in Handles |-> << >>]
    /\ call = [c \in Calls |-> IdleCall]

\* One caller thread: calls follow one another.
Init == InitFiles /\ threads = {"c1"}

\* Two caller threads, each about to make one call, in parallel.  The Files
\* are open, separately, on file a, both at the start.
InitPar ==
    /\ content \in {f \in [RegularFiles -> Contents] : f["b"] = ContentOfB}
    /\ threads = Calls
    /\ held = [h \in Handles |-> TRUE]
    /\ ofile = [x \in Cursors |-> IF x \in Handles THEN "a" ELSE "none"]
    /\ pos = [x \in Cursors |-> 0]
    /\ got = [h \in Handles |-> << >>]
    /\ call = [c \in Calls |-> IdleCall]

\* ------------------------------------------------- caller actions ----
\* let file = File::open(&file_path)?;  a fresh description at position 0.
\* The binding cannot be replaced while a call borrows the handle.
OpenFile(h, path) ==
    /\ Owner(h) \in threads
    /\ Sharing("none", h) = {}
    /\ held' = [held EXCEPT ![h] = TRUE]
    /\ ofile' = [ofile EXCEPT ![h] = path]
    /\ pos' = [pos EXCEPT ![h] = 0]
    /\ got' = [got EXCEPT ![h] = << >>]
    /\ UNCHANGED <<threads, content, call>>

\* The caller takes the result of a finished call.
Return(c) ==
    /\ call[c].pc = "done"
    /\ call' = [call EXCEPT ![c] = IdleCall]
    /\ UNCHANGED <<threads, content, held, ofile, pos, got>>

\* --------------------------------------------------- entry points ----
hash_file_from_path(c, path) ==
    /\ c \in threads
    /\ call[c].pc = "idle"
    /\ IF ~Exists(path)
       THEN /\ call' = [call EXCEPT ![c] =
                    Returned("hash", "path", "none", path, << >>, ErrIO("NotFound"), FALSE)]
            /\ UNCHANGED <<ofile, pos>>
       ELSE IF OpenError(path) # "none"
       THEN /\ call' = [call EXCEPT ![c] =
                    Returned("hash", "path", "none", path, << >>, ErrIO(OpenError(path)), FALSE)]
            /\ UNCHANGED <<ofile, pos>>
       ELSE /\ ofile' = [ofile EXCEPT ![c] = path]
            /\ pos' = [pos EXCEPT ![c] = 0]
            /\ call' = WithEntered(c, c, Entered(c, "hash", "path", c, path, << >>, FALSE))
    /\ UNCHANGED <<threads, content, held, got>>

validate_file_from_path(c, path, hash) ==
    /\ c \in threads
    /\ call[c].pc = "idle"
    /\ IF OpenError(path) # "none"
       THEN /\ call' = [call EXCEPT ![c] =
                    Returned("validate", "path", "none", path, hash, ErrIO("NotFound"), FALSE)]
            /\ UNCHANGED <<ofile, pos>>
       ELSE /\ ofile' = [ofile EXCEPT ![c] = path]
            /\ pos' = [pos EXCEPT ![c] = 0]
            /\ call' = WithEntered(c, c, Entered(c, "validate", "path", c, path, hash, FALSE))
    /\ UNCHANGED <<threads, content, held, got>>

\* impl Hashable for Path / PathBuf
PathHash(c, path) == hash_file_from_path(c, path)
PathValidate(c, path, hash) == validate_file_from_path(c, path, hash)
PathBufHash(c, path) == hash_file_from_path(c, path)
PathBufValidate(c, path, hash) == validate_file_from_path(c, path, hash)

\* self.try_clone()? in File::hash: the error of try_clone, converted by From.
HashCloneError(e) == ErrIO(e)

\* A File::validate that reports a failed try_clone as a mismatch.
ValidateCloneMismatch == OkBool(FALSE)

\* File::validate when try_clone fails: a new InvalidData error.
ValidateCloneError == ErrIO("InvalidData")

\* impl Hashable for File: hash_file(self.try_clone()?).  The clone reads
\* through the description of self.
FileHash(c, h, cloned) ==
    /\ c \in threads
    /\ call[c].pc = "idle"
    /\ held[h]
    /\ call' = IF cloned
               THEN WithEntered(c, h, Entered(c, "hash", "file", h, ofile[h], << >>, FALSE))
               ELSE [call EXCEPT ![c] =
                        Returned("hash", "file", h, ofile[h], << >>,
                                 HashCloneError("Uncategorized"), TRUE)]
    /\ got' = [got EXCEPT ![h] = << >>]
    /\ UNCHANGED <<threads, content, held, ofile, pos>>

FileValidate(c, h, hash, cloned) ==
    /\ c \in threads
    /\ call[c].pc = "idle"
    /\ held[h]
    /\ call' = IF cloned
               THEN WithEntered(c, h, Entered(c, "validate", "file", h, ofile[h], hash,
                                              got[h] # << >> /\ hash = got[h]))
               ELSE [call EXCEPT ![c] =
                        Returned("validate", "file", h, ofile[h], hash, ValidateCloneError, TRUE)]
    /\ got' = [got EXCEPT ![h] = << >>]
    /\ UNCHANGED <<threads, content, held, ofile, pos>>

\* pub fn hash_file(file: File): the caller gives its File away, which it
\* can only do while no other call borrows it.
hash_file(c, h) ==
    /\ c \in threads
    /\ call[c].pc = "idle"
    /\ held[h]
    /\ Sharing(c, h) = {}
    /\ held' = [held EXCEPT ![h] = FALSE]
    /\ got' = [got EXCEPT ![h] = << >>]
    /\ call' = WithEntered(c, h, Entered(c, "hash", "owned", h, ofile[h], << >>, FALSE))
    /\ UNCHANGED <<threads, content, ofile, pos>>

validate_file(c, h, hash) ==
    /\ c \in threads
    /\ call[c].pc = "idle"
    /\ held[h]
    /\ Sharing(c, h) = {}
    /\ held' = [held EXCEPT ![h] = FALSE]
    /\ got' = [got EXCEPT ![h] = << >>]
    /\ call' = WithEntered(c, h, Entered(c, "validate", "owned", h, ofile[h], hash, FALSE))
    /\ UNCHANGED <<threads, content, ofile, pos>>

\* ------------------------------------------------- the read loops ----
\* hash_file after the loop: Ok(computed)
HashOutcome(hasher) == OkString(Computed(hasher))

\* hash_file: Err(e) => return Err(SHAError::IO(e))
HashReadError(e, hasher) == ErrIO(e)

\* validate_file after the loop: computed.eq_ignore_ascii_case(hash.as_ref())
ValidateOutcome(hasher, hash) == EqIgnoreAsciiCase(Computed(hasher), hash)

\* A validate_file that breaks out of the loop on a failed read and compares
\* the digest of what it has folded.
ValidateReadErrorCompares(hasher, hash) == EqIgnoreAsciiCase(Computed(hasher), hash)

\* validate_file: Err(_) => return false
ValidateReadError(hasher, hash) == FALSE

\* Ok(validate_file(file, hash)) in the wrappers, the bare bool otherwise.
Wrapped(source, v) == IF source = "owned" THEN Bool(v) ELSE OkBool(v)

\* The call of thread c returns r; err is the kind of the failed read, if
\* any.  The hasher, the buffer and the reader are dropped: a description opened by the call, or given
\* to it, is closed; a clone leaves the description of the caller's File.
Done(c, r, err) ==
    LET k == call[c]
        x == k.cur
    IN  /\ call' = [call EXCEPT ![c] =
                [k EXCEPT !.pc = "done", !.result = r, !.readErr = err,
                          !.nreads = k.nreads + 1, !.hasher = Sha1New,
                          !.buffer = ZeroBuffer]]
        /\ IF k.src \in {"path", "owned"}
           THEN /\ ofile' = [ofile EXCEPT ![x] = "none"]
                /\ pos' = [pos EXCEPT ![x] = 0]
           ELSE UNCHANGED <<ofile, pos>>
        /\ got' = IF /\ k.src = "file"
                     /\ k.op = "hash"
                     /\ r.tag = "OkString"
                     /\ k.start = 0
                     /\ k.solo
                  THEN [got EXCEPT ![x] = r.str]
                  ELSE got

\* A read through one description shared by every reader of the file: it
\* moves the position of them all.
ChunkSharedPosition(c, n) ==
    LET k == call[c]
        x == k.cur
        buf == Filled(k.buffer, SubSeq(content[ofile[x]], pos[x] + 1, pos[x] + n))
    IN  /\ call' = [call EXCEPT ![c] =
                [k EXCEPT !.buffer = buf, !.hasher = Fold(k.hasher, buf, n),
                          !.nreads = k.nreads + 1]]
        /\ pos' = [y \in Cursors |-> IF ofile[y] = ofile[x] THEN pos[x] + n ELSE pos[y]]
        /\ UNCHANGED <<ofile, got>>

\* Ok(n) => hasher.update(&buffer[..n]): the read stored n bytes at the front
\* of the buffer and advanced the description by n.
Chunk(c, n) ==
    LET k == call[c]
        x == k.cur
        buf == Filled(k.buffer, SubSeq(content[ofile[x]], pos[x] + 1, pos[x] + n))
    IN  /\ call' = [call EXCEPT ![c] =
                [k EXCEPT !.buffer = buf, !.hasher = Fold(k.hasher, buf, n),
                          !.nreads = k.nreads + 1]]
        /\ pos' = [pos EXCEPT ![x] = pos[x] + n]
        /\ UNCHANGED <<ofile, got>>

\* Bytes left between the position of description x and the end of its file.
Remaining(x) == Len(content[ofile[x]]) - pos[x]

\* What reader.read(&mut buffer) may return on description x: Err(e) of a
\* kind in `kinds`, or Ok(n).
ReadOutcomes(x, kinds) ==
    {[err |-> e, n |-> 0] : e \in kinds}
        \cup {[err |-> "none", n |-> k] : k \in ReadSizes(Remaining(x))}

\* A loop of hash_file without the arm Ok(0) => break: a read of 0 bytes
\* updates the hasher with nothing and the loop goes on.
HashFileReadNoBreak(c, r) ==
    /\ Reading(c)
    /\ call[c].op = "hash"
    /\ IF r.err # "none" THEN Done(c, HashReadError(r.err, call[c].hasher), r.err)
       ELSE Chunk(c, r.n)
    /\ UNCHANGED <<threads, content, held>>

\* One iteration of the loop of hash_file; r is what the read returned.
HashFileRead(c, r) ==
    /\ Reading(c)
    /\ call[c].op = "hash"
    /\ IF r.err # "none" THEN Done(c, HashReadError(r.err, call[c].hasher), r.err)
       ELSE IF r.n = 0 THEN Done(c, HashOutcome(call[c].hasher), "none")
       ELSE Chunk(c, r.n)
    /\ UNCHANGED <<threads, content, held>>

\* One iteration of the loop of validate_file; r is what the read returned.
ValidateFileRead(c, r) ==
    /\ Reading(c)
    /\ call[c].op = "validate"
    /\ IF r.err # "none"
       THEN Done(c, Wrapped(call[c].src,
                            ValidateReadError(call[c].hasher, call[c].expected)), r.err)
       ELSE IF r.n = 0
       THEN Done(c, Wrapped(call[c].src,
                            ValidateOutcome(call[c].hasher, call[c].expected)), "none")
       ELSE Chunk(c, r.n)
    /\ UNCHANGED <<threads, content, held>>

\* ----------------------------------------------------------- Next ----
\* The threads free to make a call, and the calls in their read loop.
Idle == {c \in threads : call[c].pc = "idle"}
Active == {c \in Calls : Reading(c)}
\* The Files the caller holds.
Open == {h \in Handles : held[h]}

Next ==
    \/ \E h \in Handles, p \in RegularFiles : OpenFile(h, p)
    \/ \E c \in Calls : Return(c)
    \/ \E c \in Idle, p \in Paths : hash_file_from_path(c, p)
    \/ \E c \in Idle, p \in Paths : \E e \in ExpectedFor(p) : validate_file_from_path(c, p, e)
    \/ \E c \in Idle, p \in Paths : PathHash(c, p)
    \/ \E c \in Idle, p \in Paths : \E e \in ExpectedFor(p) : PathValidate(c, p, e)
    \/ \E c \in Idle, p \in Paths : PathBufHash(c, p)
    \/ \E c \in Idle, p \in Paths : \E e \in ExpectedFor(p) : PathBufValidate(c, p, e)
    \/ \E c \in Idle, h \in Open, cloned \in BOOLEAN : FileHash(c, h, cloned)
    \/ \E c \in Idle, h \in Open, cloned \in BOOLEAN :
            \E e \in ExpectedForHandle(h) : FileValidate(c, h, e, cloned)
    \/ \E c \in Idle, h \in Open : hash_file(c, h)
    \/ \E c \in Idle, h \in Open : \E e \in ExpectedForHandle(h) : validate_file(c, h, e)
    \/ \E c \in Active : \E r \in ReadOutcomes(call[c].cur, ReadErrKinds) : HashFileRead(c, r)
    \/ \E c \in Active : \E r \in ReadOutcomes(call[c].cur, ReadErrKinds) : ValidateFileRead(c, r)

Spec == Init /\ [][Next]_vars

\* The steps that interleave: the entry points that reach a read loop, and
\* the read loops.  The files exist, clones and reads succeed, and the
\* expected string is the digest of the file or another digest.
ExpectedPar(path) ==
    {Computed(content[path]), Computed(IF content[path] = << >> THEN <<0>> ELSE << >>)}

NextPar ==
    \/ \E c \in Idle, p \in RegularFiles : hash_file_from_path(c, p)
    \/ \E c \in Idle, p \in RegularFiles :
            \E e \in ExpectedPar(p) : validate_file_from_path(c, p, e)
    \/ \E c \in Idle, h \in Open : FileHash(c, h, TRUE)
    \/ \E c \in Idle, h \in Open : \E e \in ExpectedPar(ofile[h]) : FileValidate(c, h, e, TRUE)
    \/ \E c \in Idle, h \in Open : hash_file(c, h)
    \/ \E c \in Idle, h \in Open : \E e \in ExpectedPar(ofile[h]) : validate_file(c, h, e)
    \/ \E c \in Active : \E r \in ReadOutcomes(call[c].cur, {}) : HashFileRead(c, r)
    \/ \E c \in Active : \E r \in ReadOutcomes(call[c].cur, {}) : ValidateFileRead(c, r)

SpecPar == InitPar /\ [][NextPar]_vars

\* --------------------------------------------------------- claims ----
Finished == {c \in Calls : call[c].pc = "done"}

\* The calls whose read loop ran to the read that returned 0.
Completed == {c \in Finished : call[c].readErr = "none" /\ call[c].result.tag # "ErrIO"}

\* The whole content of the file a call is about.
Whole(c) == content[call[c].path]

\* The bytes between the position the call's reader started at and the end
\* of the file: what a reader alone on its description is given.
Stream(c) == SubSeq(Whole(c), call[c].start + 1, Len(Whole(c)))

\* The value of a hexadecimal digit of either case, -1 for any other code.
HexValue(ch) ==
    IF ch >= 48 /\ ch <= 57 THEN ch - 48
    ELSE IF ch >= 97 /\ ch <= 102 THEN ch - 87
    ELSE IF ch >= 65 /\ ch <= 70 THEN ch - 55
    ELSE 0 - 1

\* String e spells the bytes of `digest` in hexadecimal, in any letter case.
Spells(e, digest) ==
    /\ Len(e) = 2 * Len(digest)
    /\ \A i \in 1..Len(digest) :
        /\ HexValue(e[2 * i - 1]) = digest[i] \div 16
        /\ HexValue(e[2 * i]) = digest[i] % 16

\* C1: on one open File positioned at the start, file.hash() followed by
\* file.validate(h) on the same File, h being the digest the first call
\* returned and nothing else touching the File, returns Ok(true).
C1_TwoCallPattern ==
    \A c \in Completed :
        (call[c].op = "validate" /\ call[c].src = "file" /\ call[c].twoCall /\ call[c].solo)
            => call[c].result = OkBool(TRUE)

C3_NotFoundDistinguishable ==
    \A c \in Finished :
        call[c].src = "path"
            => /\ call[c].path = "missing" => call[c].result = ErrIO("NotFound")
               /\ call[c].path # "missing" => call[c].result # ErrIO("NotFound")

\* C4: for a path that exists but cannot be probed or opened (permission
\* denied), hash and validate return the I/O error with the kind of the
\* failing system call.
C4_OpenFailureKeepsCause ==
    \A c \in Finished :
        (call[c].src = "path" /\ call[c].path \in {"locked", "hidden"})
            => call[c].result = ErrIO("PermissionDenied")

\* C5: when a read fails, at the first read or after any number of chunks,
\* hash returns the I/O error with the kind of that failure and validate
\* returns false (Ok(false) from the wrappers), whatever the expected string.
C5_ReadFailureAsymmetry ==
    \A c \in Finished :
        call[c].readErr # "none"
            => /\ call[c].op = "hash" => call[c].result = ErrIO(call[c].readErr)
               /\ call[c].op = "validate"
                    => call[c].result = (IF call[c].src = "owned" THEN Bool(FALSE) ELSE OkBool(FALSE))

\* C5 witness: a validate whose read failed at the very first read while the
\* expected string was the digest of what had been folded until then.
C5_Witness ==
    \E c \in Finished :
        /\ call[c].op = "validate"
        /\ call[c].readErr # "none"
        /\ call[c].nreads = 1
        /\ call[c].expected = Computed(<< >>)
        /\ Whole(c) # << >>

\* C6: File::hash, and hash_file on an owned File, return what
\* hash_file_from_path returns for the file: the digest of its whole content.
C6_HandleHashEqualsPathHash ==
    \A c \in Completed :
        (call[c].op = "hash" /\ call[c].src \in {"file", "owned"})
            => call[c].result = OkString(Computed(Whole(c)))

C8_ChunkingIndependence ==
    /\ \A c \in Active :
        call[c].solo =>
            call[c].hasher = SubSeq(content[ofile[call[c].cur]], call[c].start + 1,
                                    pos[call[c].cur])
    /\ \A c \in Completed :
        (call[c].op = "hash" /\ call[c].solo)
            => call[c].result = OkString(ToHex(Sha1Finalize(Stream(c))))

\* C8 witness: a file longer than the buffer was hashed from its start in
\* one-byte reads.
C8_Witness ==
    \E c \in Completed :
        /\ call[c].op = "hash"
        /\ call[c].start = 0
        /\ Len(Whole(c)) > BufSize
        /\ call[c].nreads = Len(Whole(c)) + 1

\* C9: two operations running at once on clones of one File, started with
\* the File at the start, each return what they would return alone.
C9_ClonesProgressIndependently ==
    \A c \in Completed :
        (call[c].src = "file" /\ call[c].start = 0)
            => /\ call[c].op = "hash" => call[c].result = OkString(Computed(Whole(c)))
               /\ call[c].op = "validate"
                    => call[c].result = OkBool(Spells(call[c].expected, Sha1Finalize(Whole(c))))

\* C10: a call that shares its File with no other call (a path call, or the
\* only call on its File) folds the bytes of its own file in order, whatever
\* the other thread does, and returns what it returns alone.
C10_UnsharedCallsAreIsolated ==
    /\ \A c \in Active :
        call[c].solo =>
            call[c].hasher = SubSeq(content[ofile[call[c].cur]], call[c].start + 1,
                                    pos[call[c].cur])
    /\ \A c \in Completed :
        call[c].solo
            => /\ call[c].op = "hash" => call[c].result = OkString(Computed(Stream(c)))
               /\ call[c].op = "validate"
                    => call[c].result =
                         Wrapped(call[c].src, Spells(call[c].expected, Sha1Finalize(Stream(c))))

\* C10 witness: both threads are in their read loop on the same file, each
\* on a description of its own, one at the end of the file and the other in
\* the middle of it.
C10_Witness ==
    /\ Reading("c1")
    /\ Reading("c2")
    /\ call["c1"].solo
    /\ call["c2"].solo
    /\ call["c1"].path = call["c2"].path
    /\ call["c1"].cur # call["c2"].cur
    /\ pos[call["c1"].cur] = Len(Whole("c1"))
    /\ pos[call["c2"].cur] > 0
    /\ pos[call["c2"].cur] < Len(Whole("c2"))

\* C11: File::hash and File::validate leave the caller's File as it was: at
\* the step at which the call returns, the read position of the File is the
\* one it had when the call was made, the file content is unchanged, the
\* caller still holds the File, and the expected string is unchanged.
C11_HandleUnchangedByCall ==
    [][\A c \in Calls :
        (call[c].src = "file" /\ call[c].solo /\ Reading(c) /\ call'[c].pc = "done")
            => /\ pos'[call[c].cur] = call[c].start
               /\ content' = content
               /\ held'[call[c].cur]
               /\ call'[c].expected = call[c].expected]_vars

\* The codes of 0-9 and a-f.
LowerHexCodes == (48..57) \cup (97..102)

\* C12: every Ok(String) of hash, from any entry point, has exactly 40
\* characters, each in 0-9 or a-f, and its characters 2i-1 and 2i are the
\* high and the low hexadecimal digit of byte i of the 20-byte digest of the
\* bytes the call read.
C12_FortyLowercaseHexDigits ==
    \A c \in Finished :
        call[c].result.tag = "OkString"
            => LET str == call[c].result.str
                   digest == Sha1Finalize(Stream(c))
               IN  /\ Len(str) = 40
                   /\ Len(digest) = 20
                   /\ \A i \in 1..Len(str) : str[i] \in LowerHexCodes
                   /\ \A i \in 1..Len(digest) :
                        16 * HexValue(str[2 * i - 1]) + HexValue(str[2 * i]) = digest[i]

\* C12 witness: a returned digest string with a letter in it, and with a
\* digest byte below 16, which takes a padding zero.
C12_Witness ==
    \E c \in Finished :
        /\ call[c].result.tag = "OkString"
        /\ \E i \in 1..Len(call[c].result.str) : call[c].result.str[i] >= 97
        /\ \E i \in 1..DigestLen :
            /\ Sha1Finalize(Stream(c))[i] < 16
            /\ call[c].result.str[2 * i - 1] = 48

\* ------------------------------------------------------- fairness ----
\* The next read of the call of thread c, whatever it returns.
ReadStep(c) ==
    /\ Reading(c)
    /\ \E r \in ReadOutcomes(call[c].cur, ReadErrKinds) :
            HashFileRead(c, r) \/ ValidateFileRead(c, r)

\* A call runs on its caller's thread, blocking, and the thread is scheduled:
\* a read loop that can take its next read takes it.
FairSpec == Spec /\ \A c \in Calls : WF_vars(ReadStep(c))

\* C13: over a file of L bytes that does not change, a call in its read loop
\* eventually returns; it returns at the first read that gives 0 bytes or an
\* error and goes on only after a read that gave bytes; it issues no read
\* after returning and at most L + 1 reads in all.
C13_ReadLoopTerminates ==
    /\ \A c \in Calls : Reading(c) ~> (call[c].pc = "done")
    /\ [](\A c \in Calls :
            call[c].path \in RegularFiles => call[c].nreads <= Len(Whole(c)) + 1)
    /\ [][\A c \in Calls :
            /\ (Reading(c) /\ call'[c].pc = "done")
                    => /\ call'[c].nreads = call[c].nreads + 1
                       /\ call'[c].readErr # "none" \/ Remaining(call[c].cur) = 0
            /\ (Reading(c) /\ call'[c].pc = "reading")
                    => \/ call'[c].nreads = call[c].nreads
                       \/ /\ call'[c].nreads = call[c].nreads + 1
                          /\ Remaining(call[c].cur) > 0
                          /\ pos'[call[c].cur] > pos[call[c].cur]
            /\ (call[c].pc = "done" /\ call'[c].pc = "done")
                    => call'[c].nreads = call[c].nreads]_vars

\* C13 witness: a validate over a file of two bytes or more that took one
\* read per byte and returned at the failure of the read after the last byte.
C13_Witness ==
    \E c \in Finished :
        /\ call[c].op = "validate"
        /\ call[c].readErr # "none"
        /\ call[c].start = 0
        /\ Len(Whole(c)) >= 2
        /\ call[c].nreads = Len(Whole(c)) + 1

====
